---- MODULE Spec2Model ----
(***************************************************************************)
(* Model of calculator.py: the geocode-and-distance pipeline of the youth  *)
(* bike league distance calculator (DistanceCalculator, derive_aggregates  *)
(* and main).                                                              *)
(*                                                                         *)
(* Representation.                                                         *)
(*  - A Python str is a sequence of tokens (words and punctuation); string *)
(*    concatenation and f-strings are \o.  The empty str is << >>.         *)
(*  - A latitude/longitude is an integer number of 1e-7 degrees.           *)
(*  - A one-way travel result (miles, hours) is kept as the pair           *)
(*    [m, s] of the metres and seconds it was computed from, i.e. the      *)
(*    exact rationals m/1609.34 miles and s/3600 hours.                    *)
(*  - Round-trip miles are integers in tenths of a mile (round(x, 1)),     *)
(*    round-trip hours integers in hundredths of an hour (round(x, 2)).    *)
(*  - trace is the log of the externally visible effects of a run: every   *)
(*    requests.get, every time.sleep and every return of the two           *)
(*    resolvers, in program order.                                         *)
(*  - raceScan is the log of the scan of process_races: for every row     *)
(*    that passed the required-field test, its location key and whether   *)
(*    geocode_location was called for it, with what result.               *)
(***************************************************************************)
EXTENDS Integers, Sequences, FiniteSets, TLC

VARIABLES pc, geocode_cache, distance_cache, teams, venues, events,
          distances, aggregates, output, trace, raceScan,
          rowsRead, pairNo

vars == <<pc, geocode_cache, distance_cache, teams, venues, events,
          distances, aggregates, output, trace, raceScan,
          rowsRead, pairNo>>

\* ---------------------------------------------------------------- bounds

\* Number of rows the teams CSV and the races CSV hold together, at most.
MaxRows == 4

\* ---------------------------------------------------------- configuration

\* Bounding box, in 1e-7 degrees (45.0, 49.5, -125.0, -116.0).
LAT_MIN == 450000000
LAT_MAX == 495000000
LNG_MIN == -1250000000
LNG_MAX == -1160000000

LOCAL_VENUE == <<"(local venue)">>

\* LOCATION_STANDARDIZATION.get(venue, venue)
LOCATION_STANDARDIZATION(venue) ==
    CASE venue = <<"360 Trails">> -> <<"360 Trails">>
      [] venue = <<"360 Trails", "Park">> -> <<"360 Trails">>
      [] venue = <<"360 Trails", "(State Championship and Relay)">> -> <<"360 Trails">>
      [] venue = <<"Squilchuck", "(Race + Camping)">> -> <<"Squilchuck", "State Park">>
      [] venue = <<"Squilchuck", "(State Park)">> -> <<"Squilchuck", "State Park">>
      [] venue = LOCAL_VENUE -> <<"Riverside", "State Park">>
      [] venue = <<"Riverside", "(State Park)">> -> <<"Riverside", "State Park">>
      [] venue = <<"Liberty Bell High School">> -> <<"Liberty Bell High School">>
      [] venue = <<"Roslyn High School">> -> <<"Roslyn High School">>
      [] venue = <<"Cle Elum-Roslyn High School">> -> <<"Roslyn High School">>
      [] OTHER -> venue

\* CITY_LOCAL_VENUE_OVERRIDES, in dict order: <<key, value>> pairs.
CITY_LOCAL_VENUE_OVERRIDES ==
    << <<"Spokane", <<"Riverside", "State Park">> >>,
       <<"Winthrop", <<"Liberty Bell High School">> >>,
       <<"Ephrata", <<"Ephrata", ",", "WA">> >> >>

\* ---------------------------------------------------------------- helpers

Seasons == {"Spring", "Fall", "Other"}

infer_season(month) ==
    IF 3 <= month /\ month <= 6 THEN "Spring"
    ELSE IF 9 <= month /\ month <= 11 THEN "Fall"
    ELSE "Other"

\* k.lower() in city.lower(): the city's tokens are words, the override keys
\* are single words, so the substring test is membership of the word.
CityContains(city, k) == \E i \in 1..Len(city) : city[i] = k

standardize_venue_name(city, venue) ==
    LET hits == {i \in 1..Len(CITY_LOCAL_VENUE_OVERRIDES) :
                    CityContains(city, CITY_LOCAL_VENUE_OVERRIDES[i][1])}
        first == CHOOSE i \in hits : \A j \in hits : i <= j
    IN IF venue = LOCAL_VENUE /\ hits # {}
       THEN CITY_LOCAL_VENUE_OVERRIDES[first][2]
       ELSE LOCATION_STANDARDIZATION(venue)

\* TRUE iff t occurs in c starting at position i.
OccursAt(t, c, i) ==
    /\ i + Len(t) - 1 <= Len(c)
    /\ \A k \in 1..Len(t) : c[i + k - 1] = t[k]

\* re.sub(re.escape(team_name), "", city): leftmost non-overlapping
\* occurrences of the name are removed.
RECURSIVE RemoveAll(_, _)
RemoveAll(t, c) ==
    IF c = << >> \/ t = << >> THEN c
    ELSE IF OccursAt(t, c, 1) THEN RemoveAll(t, SubSeq(c, Len(t) + 1, Len(c)))
    ELSE <<Head(c)>> \o RemoveAll(t, Tail(c))

\* strip() and the collapse of runs of whitespace act between tokens only.
clean_city_field(team_name, city) ==
    IF city = << >> THEN city
    ELSE LET c == RemoveAll(team_name, city)
         IN IF c # << >> THEN c ELSE city

\* Python's None.
None == [none |-> TRUE]

\* round(x, n) of the rational a/b of the wanted unit, a >= 0, b > 0:
\* round half to even.
Round(a, b) ==
    LET q == a \div b
        r == a % b
    IN IF 2 * r > b THEN q + 1
       ELSE IF 2 * r < b THEN q
       ELSE IF q % 2 = 0 THEN q ELSE q + 1

\* f"{x:.6f}" of a coordinate x in 1e-7 degrees: the value in 1e-6 degrees.
Fmt6(x) ==
    LET q == x \div 10
        r == x % 10
    IN IF r > 5 THEN q + 1
       ELSE IF r < 5 THEN q
       ELSE IF q % 2 = 0 THEN q ELSE q + 1

\* ------------------------------------------------------ external services

\* The places the geocoding service knows, in 1e-7 degrees, by a word of the
\* address; any other address resolves to a place of the same name far away.
Gazetteer ==
    << <<"98101", 476062095, -1223320708>>,
       <<"Seattle", 476038321, -1223300624>>,
       <<"Tacoma", 472528768, -1224442906>>,
       <<"Riverside", 476972215, -1175008012>>,
       <<"360 Trails", 473581333, -1226107800>> >>

FarAway == [lat |-> 397817213, lng |-> -896501481]

PlaceOf(address) ==
    LET hits == {i \in 1..Len(Gazetteer) :
                    \E k \in 1..Len(address) : address[k] = Gazetteer[i][1]}
        first == CHOOSE i \in hits : \A j \in hits : i <= j
    IN IF hits = {} THEN FarAway
       ELSE [lat |-> Gazetteer[first][2], lng |-> Gazetteer[first][3]]

\* The answers the geocoding service can give to one request: a failure
\* status, success without results, the place of the address, or a place
\* outside the bounding box.
GeocodeResponses(address) ==
    { [status |-> "ZERO_RESULTS", results |-> << >>],
      [status |-> "OK", results |-> << >>],
      [status |-> "OK", results |-> <<PlaceOf(address)>>],
      [status |-> "OK", results |-> <<FarAway>>] }

Abs(x) == IF x < 0 THEN -x ELSE x

\* Road metres and seconds between two points as the travel service reports
\* them.  The seconds are 6k + 1, so that twice the hours is never exactly
\* halfway between two hundredths (where the float decides the rounding).
RoadMetres(o, d) == (Abs(o.lat - d.lat) + Abs(o.lng - d.lng)) \div 100
RoadSeconds(o, d) == 6 * (RoadMetres(o, d) \div 150) + 1

\* The answers the travel service can give to one request: a failure status,
\* an element without a route, or the distance and duration.
DistanceResponses(o, d) ==
    { [status |-> "OVER_QUERY_LIMIT", element |-> "", distance |-> 0, duration |-> 0],
      [status |-> "OK", element |-> "ZERO_RESULTS", distance |-> 0, duration |-> 0],
      [status |-> "OK", element |-> "OK",
       distance |-> RoadMetres(o, d), duration |-> RoadSeconds(o, d)] }

\* -------------------------------------------------------------- resolvers

TwoLetterCodes == {"WA", "ID", "OR"}

\* re.search(r",\s*[A-Z]{2}\b", query)
NamesState(query) ==
    \E i \in 1..(Len(query) - 1) :
        query[i] = "," /\ query[i + 1] \in TwoLetterCodes

\* f"{query}|{force_state}"
GeocodeCacheKey(query, force_state) == query \o <<"|">> \o force_state

FullQuery(query, force_state) ==
    IF NamesState(query) THEN query
    ELSE query \o <<",">> \o force_state \o <<",">> \o <<"USA">>

\* Faulty variant of InBounds: the coordinates are not checked against the box.
InBoundsUnchecked(lat, lng) == TRUE

InBounds(lat, lng) ==
    /\ LAT_MIN <= lat /\ lat <= LAT_MAX
    /\ LNG_MIN <= lng /\ lng <= LNG_MAX

\* m[k] = v of a Python dict.
DictSet(m, k, v) == [x \in DOMAIN m \cup {k} |-> IF x = k THEN v ELSE m[x]]

\* Faulty variant of GeocodeStore: only a found location is cached.
GeocodeStoreFoundOnly(cache, cache_key, value) ==
    IF value = None THEN cache ELSE DictSet(cache, cache_key, value)

\* self.geocode_cache[cache_key] = value, on each of the three paths.
GeocodeStore(cache, cache_key, value) == DictSet(cache, cache_key, value)

\* time.sleep(GEOCODE_DELAY_SEC) on the paths of geocode_location that reach it.
GeocodeSleep(resp) ==
    IF resp.status # "OK" \/ resp.results = << >> THEN << >>
    ELSE IF ~InBounds(resp.results[1].lat, resp.results[1].lng) THEN << >>
    ELSE <<[op |-> "sleep", delay |-> "GEOCODE_DELAY_SEC"]>>

\* geocode_location(query, force_state) with cache `cache`, when the service
\* would answer `resp`: the new cache, the returned value and the effects.
geocode_location(cache, query, force_state, resp) ==
    LET cache_key == GeocodeCacheKey(query, force_state)
        full_query == FullQuery(query, force_state)
        get == [op |-> "GET geocode", address |-> full_query,
                query |-> query, force_state |-> force_state]
        ret(v) == [op |-> "return geocode_location", query |-> query,
                   force_state |-> force_state, result |-> v]
        res == resp.results[1]
        geocoded == [query |-> query, lat |-> res.lat, lng |-> res.lng]
        value == IF resp.status # "OK" \/ resp.results = << >> THEN None
                 ELSE IF ~InBounds(res.lat, res.lng) THEN None
                 ELSE geocoded
    IN IF cache_key \in DOMAIN cache
       THEN [cache |-> cache, result |-> cache[cache_key],
             log |-> <<ret(cache[cache_key])>>]
       ELSE [cache |-> GeocodeStore(cache, cache_key, value),
             result |-> value,
             log |-> <<get>> \o GeocodeSleep(resp) \o <<ret(value)>>]

\* 1609.34 metres per mile, times 100; seconds per hour.
METRES_PER_MILE_X100 == 160934
SECONDS_PER_HOUR == 3600

\* The (0.0, 0.0) fallback.
ZeroTravel == [m |-> 0, s |-> 0]

\* f"{origin['lat']:.6f},{origin['lng']:.6f}|{destination['lat']:.6f},..."
DistanceCacheKey(origin, destination) ==
    <<Fmt6(origin.lat), Fmt6(origin.lng), Fmt6(destination.lat), Fmt6(destination.lng)>>

\* Faulty variant of DistanceStore: only a route that was found is cached.
DistanceStoreFoundOnly(cache, cache_key, value) ==
    IF value = ZeroTravel THEN cache ELSE DictSet(cache, cache_key, value)

\* self.distance_cache[cache_key] = value, on each of the three paths.
DistanceStore(cache, cache_key, value) == DictSet(cache, cache_key, value)

\* time.sleep(DISTANCE_DELAY_SEC) on the paths of distance_and_time that reach it.
DistanceSleep(resp) ==
    IF resp.status # "OK" THEN << >>
    ELSE IF resp.element # "OK" THEN << >>
    ELSE <<[op |-> "sleep", delay |-> "DISTANCE_DELAY_SEC"]>>

\* distance_and_time(origin, destination) with cache `cache`, when the
\* service would answer `resp`.
distance_and_time(cache, origin, destination, resp) ==
    LET cache_key == DistanceCacheKey(origin, destination)
        get == [op |-> "GET distancematrix",
                origins |-> <<origin.lat, origin.lng>>,
                destinations |-> <<destination.lat, destination.lng>>]
        ret(v) == [op |-> "return distance_and_time", key |-> cache_key,
                   result |-> v]
        value == IF resp.status # "OK" THEN ZeroTravel
                 ELSE IF resp.element # "OK" THEN ZeroTravel
                 ELSE [m |-> resp.distance, s |-> resp.duration]
    IN IF cache_key \in DOMAIN cache
       THEN [cache |-> cache, result |-> cache[cache_key],
             log |-> <<ret(cache[cache_key])>>]
       ELSE [cache |-> DistanceStore(cache, cache_key, value),
             result |-> value,
             log |-> <<get>> \o DistanceSleep(resp) \o <<ret(value)>>]

\* ------------------------------------------------------------ input rows

\* Rows the teams CSV can hold: Team, City, State, Zip.
TeamRowSet ==
    { [Team |-> <<"Alpha">>, City |-> <<"Seattle">>, State |-> <<"WA">>, Zip |-> <<"98101">>],
      [Team |-> <<"Alpha">>, City |-> <<"Alpha", "Tacoma">>, State |-> << >>, Zip |-> << >>],
      [Team |-> <<"Beta">>, City |-> <<"Tacoma">>, State |-> <<"WA">>, Zip |-> << >>],
      [Team |-> << >>, City |-> <<"Seattle">>, State |-> <<"WA">>, Zip |-> <<"98101">>],
      [Team |-> <<"Beta">>, City |-> << >>, State |-> <<"ID">>, Zip |-> << >>] }

\* Rows the races CSV can hold: Year, Date, City, Venue.  A Date "m/d" is the
\* pair <<m, d>>, an empty Date is << >>.
RaceRowSet ==
    { [Year |-> <<"2024">>, Date |-> <<4, 13>>, City |-> <<"Spokane">>, Venue |-> LOCAL_VENUE],
      [Year |-> <<"2024">>, Date |-> <<9, 21>>, City |-> <<"Spokane">>,
       Venue |-> <<"Riverside", "(State Park)">>],
      [Year |-> <<"2025">>, Date |-> <<4, 27>>, City |-> <<"Gig Harbor">>,
       Venue |-> <<"360 Trails", "Park">>],
      [Year |-> <<"2025">>, Date |-> <<7, 12>>, City |-> <<"Gig Harbor">>,
       Venue |-> <<"360 Trails">>],
      [Year |-> <<"2025">>, Date |-> <<5, 3>>, City |-> <<"Ephrata">>, Venue |-> << >>] }

parse_mm_dd(date_str) == [month |-> date_str[1], day |-> date_str[2]]

\* ------------------------------------------------------------ process_teams

\* (row.get("State") or "WA")
StateOf(row) == IF row.State = << >> THEN <<"WA">> ELSE row.State

\* Faulty variant of TeamRowStep: the city is looked up whenever it is
\* present, and its result replaces the one of the zip.
TeamRowStepCityAlways(tms, cache, row, r1, r2) ==
    LET team == row.Team
        state == StateOf(row)
        zipc == row.Zip
        city == clean_city_field(team, row.City)
        g1 == IF zipc # << >> THEN geocode_location(cache, zipc, state, r1)
              ELSE [cache |-> cache, result |-> None, log |-> << >>]
        g2 == IF city # << >>
              THEN geocode_location(g1.cache, city, state, r2)
              ELSE [cache |-> g1.cache, result |-> g1.result, log |-> << >>]
        geocoded == g2.result
    IN IF team = << >>
       THEN [teams |-> tms, cache |-> cache, log |-> << >>]
       ELSE [teams |-> IF geocoded # None
                       THEN Append(tms, [name |-> team, city |-> city, state |-> state,
                                         zip |-> zipc, geocoded |-> geocoded])
                       ELSE tms,
             cache |-> g2.cache,
             log |-> g1.log \o g2.log]

\* One iteration of the loop of process_teams over `row`; r1 and r2 are the
\* answers the geocoding service would give to the zip and the city request.
TeamRowStep(tms, cache, row, r1, r2) ==
    LET team == row.Team
        state == StateOf(row)
        zipc == row.Zip
        city == clean_city_field(team, row.City)
        g1 == IF zipc # << >> THEN geocode_location(cache, zipc, state, r1)
              ELSE [cache |-> cache, result |-> None, log |-> << >>]
        g2 == IF g1.result = None /\ city # << >>
              THEN geocode_location(g1.cache, city, state, r2)
              ELSE [cache |-> g1.cache, result |-> g1.result, log |-> << >>]
        geocoded == g2.result
    IN IF team = << >>
       THEN [teams |-> tms, cache |-> cache, log |-> << >>]
       ELSE [teams |-> IF geocoded # None
                       THEN Append(tms, [name |-> team, city |-> city, state |-> state,
                                         zip |-> zipc, geocoded |-> geocoded])
                       ELSE tms,
             cache |-> g2.cache,
             log |-> g1.log \o g2.log]

\* ------------------------------------------------------------ process_races

\* f"{city}, {venue}"
LocationKey(city, venue) == city \o <<",">> \o venue

\* f"{venue}, {city}"
VenueQuery(city, venue) == venue \o <<",">> \o city

VenueKeys(vs) == {vs[i].location_key : i \in 1..Len(vs)}

\* Faulty variant of IsNewVenue: every row is taken for a new venue.
IsNewVenueAlways(vs, location_key) == TRUE

\* if location_key not in venues
IsNewVenue(vs, location_key) == location_key \notin VenueKeys(vs)

\* Faulty variant of SkipsRow: a failed venue geocode does not skip the row.
SkipsRowNever(geo) == FALSE

\* if not geo: ... continue
SkipsRow(geo) == geo = None

\* not (city and venue_in and date and year)
MissingField(row) ==
    row.City = << >> \/ row.Venue = << >> \/ row.Date = << >> \/ row.Year = << >>

\* One iteration of the loop of process_races over `row`; r is the answer the
\* geocoding service would give to the venue request.  venues is the dict
\* in insertion order; scan is the log of the rows scanned.
RaceRowStep(vs, evs, cache, row, r) ==
    LET city == row.City
        venue == standardize_venue_name(city, row.Venue)
        md == parse_mm_dd(row.Date)
        season == infer_season(md.month)
        location_key == LocationKey(city, venue)
        isNew == IsNewVenue(vs, location_key)
        g == IF isNew THEN geocode_location(cache, VenueQuery(city, venue), <<"WA">>, r)
             ELSE [cache |-> cache, result |-> None, log |-> << >>]
        event == [event_id |-> [year |-> row.Year, month |-> md.month, day |-> md.day,
                                city |-> city, safe_venue |-> venue],
                  year |-> row.Year, month |-> md.month, day |-> md.day,
                  season |-> season, date |-> row.Date, location_key |-> location_key]
        seen == <<[location_key |-> location_key, city |-> city, venue |-> venue,
                   called |-> isNew, geo |-> g.result]>>
    IN IF MissingField(row)
       THEN [venues |-> vs, events |-> evs, cache |-> cache, log |-> << >>,
             scan |-> << >>]
       ELSE IF isNew /\ SkipsRow(g.result)
       THEN [venues |-> vs, events |-> evs, cache |-> g.cache, log |-> g.log,
             scan |-> seen]
       ELSE [venues |-> IF isNew
                        THEN Append(vs, [location_key |-> location_key, city |-> city,
                                         venue |-> venue, geocoded |-> g.result])
                        ELSE vs,
             events |-> Append(evs, event),
             cache |-> g.cache,
             log |-> g.log,
             scan |-> seen]

\* --------------------------------------------- compute_team_venue_distances

ZeroSeasonTotals == [s \in Seasons |-> [miles |-> 0, hours |-> 0]]

\* round(one_way_miles * 2, 1) in tenths of a mile.
RoundTripMiles(one_way) == Round(2 * 1000 * one_way.m, METRES_PER_MILE_X100)

\* round(one_way_hours * 2, 2) in hundredths of an hour.
RoundTripHours(one_way) == Round(2 * 100 * one_way.s, SECONDS_PER_HOUR)

\* distances[tname] = {...} at the top of the outer loop body.
NewTeamEntry ==
    [venues |-> << >>, total_miles_events |-> 0, total_hours_events |-> 0,
     season_totals |-> ZeroSeasonTotals]

\* One iteration of the inner loop for team t and venue v (first = it is the
\* first venue of t, so the outer loop body has just run for t).
PairStep(dist, cache, t, v, first, resp) ==
    LET d0 == IF first THEN DictSet(dist, t.name, NewTeamEntry) ELSE dist
        c == distance_and_time(cache, t.geocoded, v.geocoded, resp)
        entry == [miles |-> RoundTripMiles(c.result), hours |-> RoundTripHours(c.result)]
    IN [distances |-> [d0 EXCEPT ![t.name].venues = DictSet(@, v.location_key, entry)],
        cache |-> c.cache,
        log |-> c.log]

\* -------------------------------------------------------- derive_aggregates

ZeroRt == [miles |-> 0, hours |-> 0]

\* tdata["venues"].get(vkey, {"miles": 0.0, "hours": 0.0})
RtOf(tdata, vkey) ==
    IF vkey \in DOMAIN tdata.venues THEN tdata.venues[vkey] ELSE ZeroRt

\* Counter(e["location_key"] for e in events)
CountEvents(evs) ==
    [k \in {evs[i].location_key : i \in 1..Len(evs)} |->
        Cardinality({i \in 1..Len(evs) : evs[i].location_key = k})]

\* venue_event_counts_by_season[e["season"]][e["location_key"]] += 1
CountEventsBySeason(evs) ==
    [s \in {evs[i].season : i \in 1..Len(evs)} |->
        [k \in {evs[i].location_key : i \in {j \in 1..Len(evs) : evs[j].season = s}} |->
            Cardinality({i \in 1..Len(evs) :
                            evs[i].season = s /\ evs[i].location_key = k})]]

\* Faulty variant of ResetSeasonTotals: the totals of an earlier call are kept.
ResetSeasonTotalsSkipped(season_totals) == season_totals

\* The reset of a team's season totals before its events are summed.
ResetSeasonTotals(season_totals) ==
    [s \in DOMAIN season_totals |-> ZeroRt]

\* Faulty variant of AddToSeason: only the Spring and Fall buckets are fed.
AddToSeasonSpringFall(season_totals, season, rt) ==
    IF season = "Other" THEN season_totals
    ELSE [season_totals EXCEPT ![season] =
            [miles |-> @.miles + rt.miles, hours |-> @.hours + rt.hours]]

\* tdata["season_totals"][season][...] += rt[...]
AddToSeason(season_totals, season, rt) ==
    [season_totals EXCEPT ![season] =
        [miles |-> @.miles + rt.miles, hours |-> @.hours + rt.hours]]

\* Faulty variant of SumEvents: every venue is counted once, at its first event.
RECURSIVE SumFirstEvents(_, _, _, _)
SumFirstEvents(tdata, evs, acc, seen) ==
    IF evs = << >> THEN acc
    ELSE LET e == Head(evs)
             rt == IF e.location_key \in seen THEN ZeroRt
                   ELSE RtOf(tdata, e.location_key)
         IN SumFirstEvents(tdata, Tail(evs),
               [total_miles |-> acc.total_miles + rt.miles,
                total_hours |-> acc.total_hours + rt.hours,
                season_totals |->
                   [acc.season_totals EXCEPT ![e.season] =
                       [miles |-> @.miles + rt.miles, hours |-> @.hours + rt.hours]]],
               seen \cup {e.location_key})

SumEventsOncePerVenue(tdata, evs, acc) == SumFirstEvents(tdata, evs, acc, {})

\* The loop over the events for one team: acc holds total_miles, total_hours
\* and the season totals.
RECURSIVE SumEvents(_, _, _)
SumEvents(tdata, evs, acc) ==
    IF evs = << >> THEN acc
    ELSE LET e == Head(evs)
             rt == RtOf(tdata, e.location_key)
         IN SumEvents(tdata, Tail(evs),
                      [total_miles |-> acc.total_miles + rt.miles,
                       total_hours |-> acc.total_hours + rt.hours,
                       season_totals |-> AddToSeason(acc.season_totals, e.season, rt)])

\* The body of the per-team loop: the team's entry with its totals filled in.
TeamTotals(tdata, evs) ==
    LET acc == SumEvents(tdata, evs,
                         [total_miles |-> 0, total_hours |-> 0,
                          season_totals |-> ResetSeasonTotals(tdata.season_totals)])
    IN [venues |-> tdata.venues,
        total_miles_events |-> Round(acc.total_miles, 1),
        total_hours_events |-> Round(acc.total_hours, 1),
        season_totals |-> [s \in DOMAIN acc.season_totals |->
                              [miles |-> Round(acc.season_totals[s].miles, 1),
                               hours |-> Round(acc.season_totals[s].hours, 1)]]]

\* Sum of f over its domain.
RECURSIVE SumFn(_)
SumFn(f) ==
    IF DOMAIN f = {} THEN 0
    ELSE LET x == CHOOSE y \in DOMAIN f : TRUE
         IN f[x] + SumFn([y \in DOMAIN f \ {x} |-> f[y]])

\* Faulty variant of VenueTotal: the round trips are not weighted by the event count.
VenueTotalUnweighted(dist, vkey, count, field) ==
    Round(SumFn([t \in DOMAIN dist |->
                    IF field = "miles" THEN RtOf(dist[t], vkey).miles
                    ELSE RtOf(dist[t], vkey).hours]), 1)

\* venue_total_*[vkey] += rt[...] * count, over all teams.
VenueTotal(dist, vkey, count, field) ==
    Round(SumFn([t \in DOMAIN dist |->
                    IF field = "miles" THEN RtOf(dist[t], vkey).miles * count
                    ELSE RtOf(dist[t], vkey).hours * count]), 1)

VenueTotals(dist, counts, field) ==
    [k \in DOMAIN counts |-> VenueTotal(dist, k, counts[k], field)]

\* derive_aggregates(distances, events): the distances structure as it is
\* left, and the returned aggregates.
derive_aggregates(dist, evs) ==
    LET venue_event_counts == CountEvents(evs)
        venue_event_counts_by_season == CountEventsBySeason(evs)
    IN [distances |-> [t \in DOMAIN dist |-> TeamTotals(dist[t], evs)],
        aggregates |->
          [venue_event_counts |-> venue_event_counts,
           venue_event_counts_by_season |-> venue_event_counts_by_season,
           venue_total_miles |-> VenueTotals(dist, venue_event_counts, "miles"),
           venue_total_hours |-> VenueTotals(dist, venue_event_counts, "hours"),
           venue_total_miles_by_season |->
              [s \in DOMAIN venue_event_counts_by_season |->
                  VenueTotals(dist, venue_event_counts_by_season[s], "miles")],
           venue_total_hours_by_season |->
              [s \in DOMAIN venue_event_counts_by_season |->
                  VenueTotals(dist, venue_event_counts_by_season[s], "hours")]]]

\* ------------------------------------------------------------------- main

Init ==
    /\ pc = "process_teams"
    /\ geocode_cache = << >>
    /\ distance_cache = << >>
    /\ teams = << >>
    /\ venues = << >>
    /\ events = << >>
    /\ distances = << >>
    /\ aggregates = None
    /\ output = None
    /\ trace = << >>
    /\ raceScan = << >>
    /\ rowsRead = 0
    /\ pairNo = 0

\* if not teams: return
AfterTeams(tms) == IF tms = << >> THEN "aborted" ELSE "process_races"

\* Faulty variant of AfterRaces: main goes on without the check.
AfterRacesUnchecked(vs, evs) == "compute_team_venue_distances"

\* if not venues or not events: return
AfterRaces(vs, evs) ==
    IF vs = << >> \/ evs = << >> THEN "aborted" ELSE "compute_team_venue_distances"

\* process_teams reads the next row of the teams CSV.
TeamRow ==
    /\ pc = "process_teams"
    /\ rowsRead < MaxRows
    /\ \E row \in TeamRowSet :
         \E r1 \in GeocodeResponses(FullQuery(row.Zip, StateOf(row))),
            r2 \in GeocodeResponses(FullQuery(clean_city_field(row.Team, row.City),
                                              StateOf(row))) :
            \E n \in {TeamRowStep(teams, geocode_cache, row, r1, r2)} :
               /\ teams' = n.teams
               /\ geocode_cache' = n.cache
               /\ trace' = trace \o n.log
    /\ rowsRead' = rowsRead + 1
    /\ UNCHANGED <<pc, distance_cache, venues, events, distances, aggregates,
                   output, raceScan, pairNo>>

\* The teams CSV is exhausted: process_teams returns and main goes on, or
\* stops when no team was loaded.
TeamsEnd ==
    /\ pc = "process_teams"
    /\ pc' = AfterTeams(teams)
    /\ UNCHANGED <<geocode_cache, distance_cache, teams, venues, events, distances,
                   aggregates, output, trace, raceScan, rowsRead, pairNo>>

\* process_races reads the next row of the races CSV.
RaceRow ==
    /\ pc = "process_races"
    /\ rowsRead < MaxRows
    /\ \E row \in RaceRowSet :
         \E r \in GeocodeResponses(
                     FullQuery(VenueQuery(row.City,
                                          standardize_venue_name(row.City, row.Venue)),
                               <<"WA">>)) :
            \E n \in {RaceRowStep(venues, events, geocode_cache, row, r)} :
               /\ venues' = n.venues
               /\ events' = n.events
               /\ geocode_cache' = n.cache
               /\ trace' = trace \o n.log
               /\ raceScan' = raceScan \o n.scan
    /\ rowsRead' = rowsRead + 1
    /\ UNCHANGED <<pc, distance_cache, teams, distances, aggregates, output,
                   pairNo>>

\* The races CSV is exhausted: process_races returns and main goes on, or
\* stops when no venue or no event was loaded.
RacesEnd ==
    /\ pc = "process_races"
    /\ pc' = AfterRaces(venues, events)
    /\ UNCHANGED <<geocode_cache, distance_cache, teams, venues, events, distances,
                   aggregates, output, trace, raceScan, rowsRead, pairNo>>

\* Faulty variant of PairAt: the venues are the outer loop, the teams the
\* inner one.
PairAtVenueOuter(n, nTeams, nVenues) ==
    [team |-> (n % nTeams) + 1, venue |-> (n \div nTeams) + 1]

\* Positions in teams and venues of the pair the nested loops reach after n
\* pairs: for t in teams (outer), for vkey, v in venues.items() (inner).
PairAt(n, nTeams, nVenues) ==
    [team |-> (n \div nVenues) + 1, venue |-> (n % nVenues) + 1]

\* One iteration of the inner loop of compute_team_venue_distances; after the
\* last pair the function returns.
DistancePair ==
    /\ pc = "compute_team_venue_distances"
    /\ pairNo < Len(teams) * Len(venues)
    /\ LET at == PairAt(pairNo, Len(teams), Len(venues))
           t == teams[at.team]
           v == venues[at.venue]
       IN \E resp \in DistanceResponses(t.geocoded, v.geocoded) :
            \E n \in {PairStep(distances, distance_cache, t, v,
                              pairNo % Len(venues) = 0, resp)} :
               /\ distances' = n.distances
               /\ distance_cache' = n.cache
               /\ trace' = trace \o n.log
    /\ pairNo' = pairNo + 1
    /\ pc' = IF pairNo + 1 = Len(teams) * Len(venues) THEN "derive_aggregates" ELSE pc
    /\ UNCHANGED <<geocode_cache, teams, venues, events, aggregates, output,
                   raceScan, rowsRead>>

\* main calls derive_aggregates(distances, events).
DeriveAggregates ==
    /\ pc = "derive_aggregates"
    /\ \E n \in {derive_aggregates(distances, events)} :
          /\ distances' = n.distances
          /\ aggregates' = n.aggregates
    /\ pc' = "write_output"
    /\ UNCHANGED <<geocode_cache, distance_cache, teams, venues, events, output,
                   trace, raceScan, rowsRead, pairNo>>

\* main builds the document and writes it.
\* metadata.generated_at, the wall-clock time of the run, is left out.
WriteOutput ==
    /\ pc = "write_output"
    /\ output' = [teams |-> teams, venues |-> venues, events |-> events,
                  distances |-> distances, aggregates |-> aggregates,
                  metadata |-> [total_teams |-> Len(teams),
                                total_venues |-> Len(venues),
                                total_events |-> Len(events)]]
    /\ pc' = "done"
    /\ UNCHANGED <<geocode_cache, distance_cache, teams, venues, events, distances,
                   aggregates, trace, raceScan, rowsRead, pairNo>>

Next ==
    \/ TeamRow
    \/ TeamsEnd
    \/ RaceRow
    \/ RacesEnd
    \/ DistancePair
    \/ DeriveAggregates
    \/ WriteOutput

Spec == Init /\ [][Next]_vars

\* ------------------------------------------------------------ properties

\* Positions of the trace holding an effect of kind op.
TraceIdx(op) == {i \in 1..Len(trace) : trace[i].op = op}

SamePair(a, b) == a.query = b.query /\ a.force_state = b.force_state

\* C1: within one run every (query, region_hint) pair causes at most one
\* external geocoding request, and every later geocode_location call with the
\* pair returns what the first call with it returned, without a new request,
\* also when that was not-found.
C1_AtMostOneRequestPerPair ==
    /\ \A i, j \in TraceIdx("GET geocode") :
          SamePair(trace[i], trace[j]) => i = j
    /\ \A i, j \in TraceIdx("return geocode_location") :
          (i < j /\ SamePair(trace[i], trace[j])) =>
             /\ trace[j].result = trace[i].result
             /\ \A k \in TraceIdx("GET geocode") :
                   SamePair(trace[k], trace[i]) => k < i

\* C1 witness: a pair whose first lookup went to the service and came back
\* not-found has been looked up again.
C1_Witness ==
    \E i, j \in TraceIdx("return geocode_location") :
       /\ i < j
       /\ SamePair(trace[i], trace[j])
       /\ trace[i].result = None
       /\ \E k \in TraceIdx("GET geocode") : k < i /\ SamePair(trace[k], trace[i])

\* TRUE iff a sleep of the named delay lies strictly between positions i and j.
SleptBetween(i, j, delay) ==
    \E k \in TraceIdx("sleep") : i < k /\ k < j /\ trace[k].delay = delay

\* TRUE iff every two requests of kind op have a sleep of `delay` between them.
Throttled(op, delay) ==
    \A i, j \in TraceIdx(op) : i < j => SleptBetween(i, j, delay)

\* C2: between any two consecutive external requests of the geocoding
\* resolver, and likewise of the distance resolver, the throttle delay is
\* executed, whatever the outcome of the earlier request.
C2_DelayBetweenRequests ==
    /\ Throttled("GET geocode", "GEOCODE_DELAY_SEC")
    /\ Throttled("GET distancematrix", "DISTANCE_DELAY_SEC")

\* compute_team_venue_distances has returned.
MatrixComputed == pc \in {"derive_aggregates", "write_output", "done"}

\* derive_aggregates has returned.
AggregatesDerived == pc \in {"write_output", "done"}

\* Number of (team, venue) entries the matrix holds.
MatrixSize ==
    SumFn([t \in DOMAIN distances |-> Cardinality(DOMAIN distances[t].venues)])

\* C3: after compute_team_venue_distances the matrix holds exactly
\* |teams| x |venues| entries, one of its own for every team record of the
\* teams collection and every venue, zero-filled or not.
C3_MatrixHoldsEveryPair ==
    MatrixComputed =>
       /\ MatrixSize = Len(teams) * Len(venues)
       /\ Cardinality(DOMAIN distances) = Len(teams)
       /\ \A i \in 1..Len(teams), j \in 1..Len(venues) :
             /\ teams[i].name \in DOMAIN distances
             /\ venues[j].location_key \in DOMAIN distances[teams[i].name].venues

\* Rows of the scan that reference the location key.
RowsWith(key) == {i \in 1..Len(raceScan) : raceScan[i].location_key = key}

\* Rows of the scan for which geocode_location was called.
CallsFor(key) == {i \in RowsWith(key) : raceScan[i].called}

VenuesWith(key) == {j \in 1..Len(venues) : venues[j].location_key = key}

\* External geocoding requests made for the venue query of scan row i.
VenueRequests(i) ==
    {k \in TraceIdx("GET geocode") :
        /\ trace[k].query = VenueQuery(raceScan[i].city, raceScan[i].venue)
        /\ trace[k].force_state = <<"WA">>}

NoSharedKey ==
    \A i, j \in 1..Len(venues) :
       venues[i].location_key = venues[j].location_key => i = j

\* C4 as stated: for N >= 1 valid race rows with the same location key,
\* exactly one geocoding call is made for the venue and the collection holds
\* exactly one Venue with the key; no two Venues ever share a key.
C4_ExactlyOneCallAndVenue ==
    /\ NoSharedKey
    /\ \A i \in 1..Len(raceScan) :
          LET key == raceScan[i].location_key
          IN /\ Cardinality(CallsFor(key)) = 1
             /\ Cardinality(VenuesWith(key)) = 1

\* C4 amended: for N >= 1 valid race rows with the same location key, at
\* most one external geocoding request is made for the venue; when its lookup
\* succeeds geocode_location is called once and the collection holds exactly
\* one Venue with the key, when it returns not-found geocode_location is
\* called for each of the N rows and the collection holds no Venue with the
\* key; no two Venues ever share a key.
C4_OneVenuePerGeocodedKey ==
    /\ NoSharedKey
    /\ \A i \in 1..Len(raceScan) :
          LET key == raceScan[i].location_key
              found == \E r \in CallsFor(key) : raceScan[r].geo # None
          IN /\ Cardinality(VenueRequests(i)) <= 1
             /\ found => /\ Cardinality(CallsFor(key)) = 1
                         /\ Cardinality(VenuesWith(key)) = 1
             /\ ~found => /\ CallsFor(key) = RowsWith(key)
                          /\ VenuesWith(key) = {}

\* C4 witness: two rows with different raw venue names share a location key
\* whose lookup succeeded.
C4_Witness ==
    \E i, j \in 1..Len(raceScan) :
       /\ i < j
       /\ raceScan[i].location_key = raceScan[j].location_key
       /\ raceScan[i].called /\ raceScan[i].geo # None
       /\ Cardinality(VenuesWith(raceScan[i].location_key)) = 1
       /\ Len(events) >= 2
       /\ events[1].season # events[2].season

\* The effect of scanning one valid race row, the last of raceScan'.
RaceRowEffect ==
    LET e == raceScan'[Len(raceScan')]
        existed == e.location_key \in VenueKeys(venues)
    IN /\ (~existed /\ e.geo = None) => (events' = events /\ venues' = venues)
       /\ existed => /\ Len(events') = Len(events) + 1
                     /\ events'[Len(events')].location_key = e.location_key
                     /\ venues' = venues
       /\ (~existed /\ e.geo # None) =>
                     /\ Len(events') = Len(events) + 1
                     /\ events'[Len(events')].location_key = e.location_key
                     /\ Len(venues') = Len(venues) + 1
                     /\ venues'[Len(venues')].location_key = e.location_key

\* C5: after every step of process_races every Event references the location
\* key of a Venue of the collection; a row whose new venue fails to geocode
\* adds neither an Event nor a Venue, a row whose key already exists adds
\* one Event and no Venue.
C5_EventsReferenceVenues ==
    /\ [](\A i \in 1..Len(events) : events[i].location_key \in VenueKeys(venues))
    /\ [][raceScan' # raceScan => RaceRowEffect]_vars

\* C5 witness: a row with a known key has added an Event after a row with a
\* new key was skipped for its failed geocode.
C5_Witness ==
    /\ Len(raceScan) >= 2
    /\ raceScan[1].called /\ raceScan[1].geo = None
    /\ ~raceScan[Len(raceScan)].called
    /\ Len(events) = Len(raceScan) - 1

\* TRUE iff n is a / b rounded to the nearest integer (a >= 0, b > 0).
IsNearest(n, a, b) == Abs(n * b - a) <= b \div 2

\* C6: for every (team, venue) pair the matrix value is twice the one-way
\* result the travel operation returned for that team's and that venue's
\* coordinates, rounded to 1 decimal (miles) and 2 decimals (hours), and it
\* is (0, 0) exactly when the travel lookup returned the zero fallback.
C6_MatrixIsTwiceTravel ==
    MatrixComputed =>
       \A i \in 1..Len(teams), j \in 1..Len(venues) :
          LET t == teams[i]
              v == venues[j]
              one_way == distance_cache[DistanceCacheKey(t.geocoded, v.geocoded)]
              rt == distances[t.name].venues[v.location_key]
          IN /\ IsNearest(rt.miles, 2 * 1000 * one_way.m, METRES_PER_MILE_X100)
             /\ IsNearest(rt.hours, 2 * 100 * one_way.s, SECONDS_PER_HOUR)
             /\ (rt = ZeroRt) <=> (one_way = ZeroTravel)

\* Events held at the venue with the location key, and those of one season.
EventsAt(key) == {i \in 1..Len(events) : events[i].location_key = key}

EventsAtIn(key, season) == {i \in EventsAt(key) : events[i].season = season}

\* C7: derive_aggregates sets each team's overall total to the sum over all
\* events of the team's matrix entry for the event's venue, so that a venue
\* hosting k events contributes its round trip k times, and adds each
\* event's contribution to exactly one season bucket of the team, that of
\* the event's season.
C7_TeamTotalsSumOverEvents ==
    AggregatesDerived =>
       /\ \A i \in 1..Len(events) :
             Cardinality({s \in Seasons : events[i].season = s}) = 1
       /\ \A t \in DOMAIN distances :
             LET td == distances[t]
             IN /\ td.total_miles_events =
                      SumFn([k \in DOMAIN td.venues |->
                                td.venues[k].miles * Cardinality(EventsAt(k))])
                /\ td.total_hours_events =
                      SumFn([k \in DOMAIN td.venues |->
                                td.venues[k].hours * Cardinality(EventsAt(k))])
                /\ DOMAIN td.season_totals = Seasons
                /\ \A s \in Seasons :
                      /\ td.season_totals[s].miles =
                            SumFn([k \in DOMAIN td.venues |->
                                      td.venues[k].miles * Cardinality(EventsAtIn(k, s))])
                      /\ td.season_totals[s].hours =
                            SumFn([k \in DOMAIN td.venues |->
                                      td.venues[k].hours * Cardinality(EventsAtIn(k, s))])

\* C7 witness: a venue with a non-zero round trip from a team has hosted two
\* events, in different seasons.
C7_Witness ==
    /\ AggregatesDerived
    /\ \E t \in DOMAIN distances : \E k \in DOMAIN distances[t].venues :
          /\ distances[t].venues[k].miles > 0
          /\ Cardinality(EventsAt(k)) = 2
          /\ \E s \in Seasons : Cardinality(EventsAtIn(k, s)) = 1
          /\ distances[t].total_miles_events = 2 * distances[t].venues[k].miles

\* C8: after derive_aggregates, for every team the Spring, Fall and Other
\* season totals add up to the team's total_miles_events, and likewise for
\* the hours.
C8_SeasonTotalsAddUp ==
    AggregatesDerived =>
       \A t \in DOMAIN distances :
          LET td == distances[t]
          IN /\ td.total_miles_events =
                   td.season_totals["Spring"].miles + td.season_totals["Fall"].miles
                   + td.season_totals["Other"].miles
             /\ td.total_hours_events =
                   td.season_totals["Spring"].hours + td.season_totals["Fall"].hours
                   + td.season_totals["Other"].hours

\* C8 witness: a team has travelled in the Other season and in another one.
C8_Witness ==
    /\ AggregatesDerived
    /\ \E t \in DOMAIN distances :
          /\ distances[t].season_totals["Other"].miles > 0
          /\ distances[t].season_totals["Spring"].hours > 0

\* The team's round trip to the venue, once for every event in the set.
RtTimes(t, key, evset, field) ==
    SumFn([i \in evset |->
              IF field = "miles" THEN RtOf(distances[t], key).miles
              ELSE RtOf(distances[t], key).hours])

\* Sum over the teams of the above.
OverTeams(key, evset, field) ==
    SumFn([t \in DOMAIN distances |-> RtTimes(t, key, evset, field)])

\* C9: for every venue hosting at least one event derive_aggregates returns
\* an overall total equal to the sum over the teams of the team's round trip
\* to the venue times the number of events there, and for each season a
\* total that counts the venue's events of that season only.
C9_VenueTotalsWeighted ==
    AggregatesDerived =>
       /\ DOMAIN aggregates.venue_total_miles = {events[i].location_key : i \in 1..Len(events)}
       /\ DOMAIN aggregates.venue_total_hours = DOMAIN aggregates.venue_total_miles
       /\ \A k \in DOMAIN aggregates.venue_total_miles :
             /\ aggregates.venue_total_miles[k] = OverTeams(k, EventsAt(k), "miles")
             /\ aggregates.venue_total_hours[k] = OverTeams(k, EventsAt(k), "hours")
       /\ \A s \in Seasons, k \in DOMAIN aggregates.venue_total_miles :
             EventsAtIn(k, s) # {} =>
                /\ aggregates.venue_total_miles_by_season[s][k] =
                      OverTeams(k, EventsAtIn(k, s), "miles")
                /\ aggregates.venue_total_hours_by_season[s][k] =
                      OverTeams(k, EventsAtIn(k, s), "hours")

\* C9 witness: a venue hosts two events, both in Spring, and receives twice
\* the non-zero round trip of the only team as its Spring miles.
C9_Witness ==
    /\ AggregatesDerived
    /\ \E t \in DOMAIN distances : \E k \in DOMAIN aggregates.venue_total_miles :
          /\ DOMAIN distances = {t}
          /\ Cardinality(EventsAtIn(k, "Spring")) = 2
          /\ Cardinality(EventsAt(k)) = 2
          /\ distances[t].venues[k].miles > 0
          /\ aggregates.venue_total_miles_by_season["Spring"][k] =
                2 * distances[t].venues[k].miles

\* TRUE iff the trace holds a request to the travel service.
TravelRequested == TraceIdx("GET distancematrix") # {}

\* Wherever main stands before its end, its next step can be taken.
GoesOn ==
    /\ pc = "process_teams" => ENABLED TeamsEnd
    /\ pc = "process_races" => ENABLED RacesEnd
    /\ pc = "compute_team_venue_distances" => ENABLED DistancePair
    /\ pc = "derive_aggregates" => ENABLED DeriveAggregates
    /\ pc = "write_output" => ENABLED WriteOutput

\* What holds of a run that has stopped, or gone past its two checks.
OutputState ==
    /\ (output # None) <=> (pc = "done")
    /\ pc = "done" => (teams # << >> /\ venues # << >> /\ events # << >>)
    /\ pc = "aborted" =>
          /\ teams = << >> \/ venues = << >> \/ events = << >>
          /\ ~TravelRequested /\ distance_cache = << >> /\ distances = << >>
          /\ aggregates = None /\ output = None
    /\ pc \in {"compute_team_venue_distances", "derive_aggregates", "write_output"} =>
          (teams # << >> /\ venues # << >> /\ events # << >>)
    /\ pc \in {"process_teams", "process_races", "compute_team_venue_distances",
               "derive_aggregates", "write_output", "done", "aborted"}
    /\ GoesOn

\* The run stops without output only at one of the two checks of main.
StopsOnlyEmpty ==
    pc' = "aborted" =>
       \/ pc = "process_teams" /\ teams = << >>
       \/ pc = "process_races" /\ (venues = << >> \/ events = << >>)

\* C10: the run writes the output document if and only if at least one team
\* was geocoded and at least one venue and one event were built; with no
\* team, or no venue or event, it stops before any distance lookup,
\* aggregation or output; failed geocoding or travel lookups never stop it.
C10_OutputIffBaseSets == []OutputState /\ [][StopsOnlyEmpty]_vars

\* C10 witness: the document was written although a geocoding lookup and a
\* travel lookup had failed.
C10_Witness ==
    /\ pc = "done"
    /\ output # None
    /\ \E k \in DOMAIN geocode_cache : geocode_cache[k] = None
    /\ \E k \in DOMAIN distance_cache : distance_cache[k] = ZeroTravel

\* Answers of the travel service that carry no route: a matrix status other
\* than OK, or an element status other than OK.
FailedTravel(o, d) ==
    {r \in DistanceResponses(o, d) : r.status # "OK" \/ r.element # "OK"}

\* Cache key of the coordinate pair that request k of the trace was sent for.
RequestKey(k) ==
    DistanceCacheKey([lat |-> trace[k].origins[1], lng |-> trace[k].origins[2]],
                     [lat |-> trace[k].destinations[1],
                      lng |-> trace[k].destinations[2]])

\* A call for a coordinate pair not yet cached that the service answers with
\* no route returns (0.0, 0.0) and stores it, and a further call for the pair
\* returns (0.0, 0.0) from the cache whatever the service would answer.
FailureIsCached(o, d) ==
    LET key == DistanceCacheKey(o, d)
    IN key \notin DOMAIN distance_cache =>
         \A resp \in FailedTravel(o, d) :
            \E c \in {distance_and_time(distance_cache, o, d, resp)} :
               /\ c.result = ZeroTravel
               /\ key \in DOMAIN c.cache
               /\ c.cache[key] = ZeroTravel
               /\ \A again \in DistanceResponses(o, d) :
                     \E c2 \in {distance_and_time(c.cache, o, d, again)} :
                        /\ c2.result = ZeroTravel
                        /\ c2.cache = c.cache
                        /\ \A k \in 1..Len(c2.log) :
                              c2.log[k].op # "GET distancematrix"

\* C11: when the travel service answers with a non-success status or a
\* no-route element, distance_and_time returns (0.0, 0.0) and stores the zero
\* result in the distance cache, and every later call of the run for the same
\* ordered coordinate pair (rounded to 6 decimals) returns (0.0, 0.0) with no
\* new external request.
C11_FailedTravelIsCachedAsZero ==
    /\ pc = "compute_team_venue_distances" =>
          \A i \in 1..Len(teams), j \in 1..Len(venues) :
             FailureIsCached(teams[i].geocoded, venues[j].geocoded)
    /\ \A i \in TraceIdx("return distance_and_time") :
          trace[i].result = ZeroTravel =>
             /\ trace[i].key \in DOMAIN distance_cache
             /\ distance_cache[trace[i].key] = ZeroTravel
             /\ \A j \in TraceIdx("return distance_and_time") :
                   j > i /\ trace[j].key = trace[i].key =>
                      trace[j].result = ZeroTravel
             /\ \A k \in TraceIdx("GET distancematrix") :
                   k > i => RequestKey(k) # trace[i].key

\* C11 witness: a request that failed, and a later call for the same
\* coordinate pair that returned (0.0, 0.0) without a request.
C11_Witness ==
    \E i, j \in TraceIdx("return distance_and_time") :
       /\ i < j
       /\ trace[i].key = trace[j].key
       /\ trace[i - 1].op = "GET distancematrix"
       /\ trace[i].result = ZeroTravel
       /\ trace[j].result = ZeroTravel
       /\ trace[j - 1].op # "GET distancematrix"

\* The point lies outside the bounding box of the region.
OutsideBox(p) ==
    p.lat < LAT_MIN \/ p.lat > LAT_MAX \/ p.lng < LNG_MIN \/ p.lng > LNG_MAX

\* Answers to a request for the address that carry success and a first
\* result outside the bounding box, and answers that are a failed lookup.
OutOfBoundsAnswers(address) ==
    {r \in GeocodeResponses(address) :
        r.status = "OK" /\ r.results # << >> /\ OutsideBox(r.results[1])}

FailedAnswers(address) ==
    {r \in GeocodeResponses(address) : r.status # "OK" \/ r.results = << >>}

ZipAddress(row) == FullQuery(row.Zip, StateOf(row))

CityAddress(row) == FullQuery(clean_city_field(row.Team, row.City), StateOf(row))

VenueAddress(row) ==
    FullQuery(VenueQuery(row.City, standardize_venue_name(row.City, row.Venue)),
              <<"WA">>)

\* geocode_location answers an out-of-bounds result as it answers a failed
\* lookup: same returned value (not-found), same cache, same effects.
SameLookup(query, force_state) ==
    LET address == FullQuery(query, force_state)
        key == GeocodeCacheKey(query, force_state)
    IN \A oob \in OutOfBoundsAnswers(address), failed \in FailedAnswers(address) :
          \E g \in {geocode_location(geocode_cache, query, force_state, oob)} :
             /\ g = geocode_location(geocode_cache, query, force_state, failed)
             /\ key \notin DOMAIN geocode_cache =>
                   /\ g.result = None
                   /\ key \in DOMAIN g.cache
                   /\ g.cache[key] = None

\* The iteration of process_teams over the row ends in the same teams, cache
\* and effects whether a request is answered out of bounds or as failed.
SameTeamRow(row) ==
    /\ \A oob \in OutOfBoundsAnswers(ZipAddress(row)),
          failed \in FailedAnswers(ZipAddress(row)),
          r2 \in GeocodeResponses(CityAddress(row)) :
          TeamRowStep(teams, geocode_cache, row, oob, r2)
             = TeamRowStep(teams, geocode_cache, row, failed, r2)
    /\ \A oob \in OutOfBoundsAnswers(CityAddress(row)),
          failed \in FailedAnswers(CityAddress(row)),
          r1 \in GeocodeResponses(ZipAddress(row)) :
          TeamRowStep(teams, geocode_cache, row, r1, oob)
             = TeamRowStep(teams, geocode_cache, row, r1, failed)

\* The iteration of process_races over the row ends in the same venues,
\* events, cache and effects whether the request is answered out of bounds or
\* as failed.
SameRaceRow(row) ==
    \A oob \in OutOfBoundsAnswers(VenueAddress(row)),
       failed \in FailedAnswers(VenueAddress(row)) :
       RaceRowStep(venues, events, geocode_cache, row, oob)
          = RaceRowStep(venues, events, geocode_cache, row, failed)

\* C12: a geocoding answer with success status whose coordinates fall outside
\* the bounding box is treated as a failed lookup: geocode_location returns
\* not-found and caches not-found under the same key, and the team, venue or
\* event that depends on it is left out, so that teams, venues, events, cache
\* and the trace of external calls after the row are those a failure status
\* would have given; the rest of the run starts from the same state.
C12_OutOfBoundsIsNotFound ==
    /\ pc = "process_teams" =>
          \A row \in TeamRowSet :
             /\ SameTeamRow(row)
             /\ SameLookup(row.Zip, StateOf(row))
             /\ SameLookup(clean_city_field(row.Team, row.City), StateOf(row))
    /\ pc = "process_races" =>
          \A row \in RaceRowSet :
             /\ SameRaceRow(row)
             /\ SameLookup(VenueQuery(row.City,
                                      standardize_venue_name(row.City, row.Venue)),
                           <<"WA">>)

\* C12 witness: with a venue already loaded, a row of a new venue whose
\* request is answered out of bounds: the request is sent, not-found is
\* cached, and neither a venue nor an event is added.
C12_Witness ==
    /\ pc = "process_races"
    /\ venues # << >>
    /\ \E row \in RaceRowSet :
          \E oob \in OutOfBoundsAnswers(VenueAddress(row)) :
             \E n \in {RaceRowStep(venues, events, geocode_cache, row, oob)} :
                /\ ~MissingField(row)
                /\ n.log # << >>
                /\ n.log[1].op = "GET geocode"
                /\ n.log[Len(n.log)].result = None
                /\ n.venues = venues
                /\ n.events = events
                /\ n.cache # geocode_cache

\* The calls of geocode_location a log holds, in order.
LookupsOf(log) == SelectSeq(log, LAMBDA e : e.op = "return geocode_location")

\* What the iteration of process_teams over a row with a team name does,
\* from the current teams and cache, for answers r1 and r2 of the service.
TeamRowEffect(row, r1, r2) ==
    \E n \in {TeamRowStep(teams, geocode_cache, row, r1, r2)} :
       LET calls == LookupsOf(n.log)
           zipc == row.Zip
           city == clean_city_field(row.Team, row.City)
           state == StateOf(row)
           byZip == zipc # << >>
           zipFound == byZip /\ calls[1].result # None
           byCity == Len(calls) = (IF byZip THEN 2 ELSE 1)
           found == \E k \in 1..Len(calls) : calls[k].result # None
           last == n.teams[Len(n.teams)]
       IN /\ Len(calls) <= 2
          /\ byZip => /\ Len(calls) >= 1
                      /\ calls[1].query = zipc /\ calls[1].force_state = state
          /\ ~byZip => Len(calls) <= 1
          /\ byCity => /\ calls[Len(calls)].query = city
                       /\ calls[Len(calls)].force_state = state
          /\ byCity <=> (~zipFound /\ city # << >>)
          /\ found => /\ n.teams = Append(teams, last)
                      /\ last.name = row.Team /\ last.zip = zipc
                      /\ last.city = city /\ last.state = state
                      /\ last.geocoded = calls[Len(calls)].result
                      /\ last.geocoded # None
                      /\ zipFound => last.geocoded = calls[1].result
          /\ ~found => n.teams = teams

\* C13: for each row of process_teams with a non-empty team name, geocoding
\* is attempted by zip first (only if a zip is present) and by the cleaned
\* city only when the zip is absent or its lookup returned not-found; the team
\* is included iff one of the lookups succeeded, its location being the zip
\* result whenever the zip lookup succeeded; a row for which no geocode
\* succeeds is skipped and the scan goes on with the next row.
C13_ZipThenCity ==
    /\ [](pc = "process_teams" =>
            \A row \in TeamRowSet :
               row.Team # << >> =>
                  \A r1 \in GeocodeResponses(ZipAddress(row)),
                     r2 \in GeocodeResponses(CityAddress(row)) :
                     TeamRowEffect(row, r1, r2))
    /\ [][pc = "process_teams" /\ rowsRead' # rowsRead =>
             /\ pc' = "process_teams"
             /\ (teams' = teams \/ \E t \in {teams'[Len(teams')]} :
                                      teams' = Append(teams, t))]_vars

\* C13 witness: a row whose only lookup returned not-found was skipped, and
\* the next row gave a team by its city after its zip was not found.
C13_Witness ==
    /\ pc = "process_teams"
    /\ Len(teams) = 1
    /\ teams[1].zip # << >>
    /\ teams[1].geocoded.query = teams[1].city
    /\ \E i, j, k \in TraceIdx("return geocode_location") :
          /\ i < j /\ j < k
          /\ trace[i].result = None
          /\ trace[i].query \notin {teams[1].zip, teams[1].city}
          /\ trace[j].query = teams[1].zip /\ trace[j].result = None
          /\ trace[k].query = teams[1].city /\ trace[k].result = teams[1].geocoded

\* Trace entries of the geocoding side, and of the travel side.
GeocodeOps == {"GET geocode", "return geocode_location"}

TravelOps == {"GET distancematrix", "return distance_and_time"}

\* The rows of the race scan for which geocode_location was called, in order.
CalledRows == SelectSeq(raceScan, LAMBDA r : r.called)

\* The first n entries of a sequence, and the entries after them.
Front(s, n) == SubSeq(s, 1, n)

Rest(s, n) == SubSeq(s, n + 1, Len(s))

Found(calls) == SelectSeq(calls, LAMBDA e : e.result # None)

\* The calls of geocode_location of the run are those of the team rows
\* followed by those of the race rows; the located teams follow the order of
\* their lookups, the venues the order in which their keys were first met.
TeamsThenVenues ==
    LET calls == LookupsOf(trace)
        nTeamCalls == Len(calls) - Len(CalledRows)
        teamCalls == Front(calls, nTeamCalls)
        venueCalls == Rest(calls, nTeamCalls)
    IN /\ nTeamCalls >= 0
       /\ \A k \in 1..Len(CalledRows) :
             /\ venueCalls[k].query = VenueQuery(CalledRows[k].city, CalledRows[k].venue)
             /\ venueCalls[k].force_state = <<"WA">>
             /\ venueCalls[k].result = CalledRows[k].geo
       /\ Len(Found(teamCalls)) = Len(teams)
       /\ \A i \in 1..Len(teams) : Found(teamCalls)[i].result = teams[i].geocoded
       /\ \A i \in 1..Len(teams) :
             Found(teamCalls)[i].query \in {teams[i].zip, teams[i].city}
       /\ Len(Found(venueCalls)) = Len(venues)
       /\ \A j \in 1..Len(venues) :
             /\ Found(venueCalls)[j].result = venues[j].geocoded
             /\ SelectSeq(CalledRows, LAMBDA r : r.geo # None)[j].location_key
                   = venues[j].location_key
       /\ (pc = "process_teams") => CalledRows = << >>

\* Every external request is followed by the return of the call that sent it.
RequestsBelongToCalls ==
    \A i \in 1..Len(trace) :
       /\ trace[i].op = "GET geocode" =>
             \E j \in {i + 1, i + 2} :
                /\ j <= Len(trace)
                /\ trace[j].op = "return geocode_location"
                /\ SamePair(trace[i], trace[j])
                /\ j = i + 2 => trace[i + 1].op = "sleep"
       /\ trace[i].op = "GET distancematrix" =>
             \E j \in {i + 1, i + 2} :
                /\ j <= Len(trace)
                /\ trace[j].op = "return distance_and_time"
                /\ RequestKey(i) = trace[j].key
                /\ j = i + 2 => trace[i + 1].op = "sleep"

\* The calls of distance_and_time go through the teams in order and, for each
\* team, through the venues in order.
TravelIsLexicographic ==
    LET calls == SelectSeq(trace, LAMBDA e : e.op = "return distance_and_time")
    IN /\ Len(calls) = pairNo
       /\ pairNo <= Len(teams) * Len(venues)
       /\ MatrixComputed => pairNo = Len(teams) * Len(venues)
       /\ \A k \in 1..Len(calls) :
             LET i == ((k - 1) \div Len(venues)) + 1
                 j == ((k - 1) % Len(venues)) + 1
             IN calls[k].key = DistanceCacheKey(teams[i].geocoded, venues[j].geocoded)

\* C14: the external calls of a run happen in a fixed forward order: all team
\* geocoding requests (in input-row order) precede all venue geocoding
\* requests (in first-encounter order of the venue keys), which precede all
\* travel requests; the travel lookups are invoked in lexicographic (team
\* outer, venue inner) order; no geocoding request is issued after the first
\* travel request.
C14_ForwardOrderOfCalls ==
    /\ \A i, j \in 1..Len(trace) :
          trace[i].op \in GeocodeOps /\ trace[j].op \in TravelOps => i < j
    /\ RequestsBelongToCalls
    /\ TeamsThenVenues
    /\ TravelIsLexicographic

\* C14 witness: a finished run over two teams and two venues at four
\* different places, with requests of all three kinds.
C14_Witness ==
    /\ pc = "done"
    /\ Len(teams) = 2 /\ Len(venues) = 2
    /\ teams[1].geocoded # teams[2].geocoded
    /\ venues[1].geocoded # venues[2].geocoded
    /\ Cardinality(TraceIdx("GET distancematrix")) = 4
    /\ Cardinality(TraceIdx("GET geocode")) >= 4

\* The calls of distance_and_time made so far, in order.
TravelCalls == SelectSeq(trace, LAMBDA e : e.op = "return distance_and_time")

\* The (team record, venue) pairs whose coordinates give the cache key.
PairsWithKey(key) ==
    {p \in (1..Len(teams)) \X (1..Len(venues)) :
        DistanceCacheKey(teams[p[1]].geocoded, venues[p[2]].geocoded) = key}

\* distance_and_time has been called once for each of the |teams| x |unique
\* venues| pairs, and a request was sent for each distinct coordinate pair.
OneCallPerPair ==
    LET nPairs == Len(teams) * Cardinality(VenueKeys(venues))
        nRequests == Cardinality(TraceIdx("GET distancematrix"))
    IN /\ Len(TravelCalls) <= nPairs
       /\ nRequests <= Len(TravelCalls)
       /\ MatrixComputed =>
             /\ Len(TravelCalls) = nPairs
             /\ \A i \in 1..Len(teams), j \in 1..Len(venues) :
                   LET key == DistanceCacheKey(teams[i].geocoded, venues[j].geocoded)
                   IN Cardinality({k \in 1..Len(TravelCalls) : TravelCalls[k].key = key})
                         = Cardinality(PairsWithKey(key))
             /\ nRequests = Cardinality({TravelCalls[k].key : k \in 1..Len(TravelCalls)})

\* A race row whose key is already in venues adds an event and nothing else:
\* no venue, no call, no request.
KnownVenueRow ==
    /\ pc = "process_races"
    /\ raceScan' # raceScan
    /\ raceScan'[Len(raceScan')].location_key \in VenueKeys(venues)
    => /\ venues' = venues
       /\ trace' = trace
       /\ geocode_cache' = geocode_cache
       /\ Len(events') = Len(events) + 1

\* C15: the travel operation is invoked exactly once per (team, venue) pair
\* whatever the number of events held at the venue: the number of external
\* travel requests never exceeds |teams| x |unique venues| and is not changed
\* by further race rows that reference venues already known.
C15_OneTravelCallPerPair == []OneCallPerPair /\ [][KnownVenueRow]_vars

\* C15 witness: a finished run with two teams and more events than venues,
\* with one travel request per pair.
C15_Witness ==
    /\ pc = "done"
    /\ Len(teams) = 2
    /\ Len(events) > Len(venues)
    /\ Cardinality(TraceIdx("GET distancematrix")) = Len(teams) * Len(venues)

\* ------------------------------------------- derive_aggregates on its own

\* derive_aggregates takes any distances structure and any events list: the
\* matrices and events below include venues that a team has no entry for and
\* venues that no team has an entry for.
MaxEvents == 2

MatrixTeams == {<<"Alpha">>, <<"Beta">>}

MatrixKeys ==
    {LocationKey(<<"Spokane">>, LOCAL_VENUE),
     LocationKey(<<"Gig Harbor">>, <<"360 Trails">>)}

\* Round trips in tenths of a mile and hundredths of an hour.
MatrixEntries == {[miles |-> 125, hours |-> 21], [miles |-> 4003, hours |-> 617]}

\* The per-team "venues" dicts: an entry for some of the keys.
VenueDicts == UNION {[D -> MatrixEntries] : D \in SUBSET MatrixKeys}

\* The distances structures as compute_team_venue_distances shapes them.
MatrixSet ==
    UNION {[T -> {[NewTeamEntry EXCEPT !.venues = vd] : vd \in VenueDicts}] :
              T \in SUBSET MatrixTeams}

\* The events, with the two fields derive_aggregates reads.
EventSet == [location_key : MatrixKeys, season : Seasons]

EventLists == UNION {[1..n -> EventSet] : n \in 0..MaxEvents}

\* main has reached the call of derive_aggregates with some distances
\* structure and some events list.
InitAggregates ==
    /\ pc = "derive_aggregates"
    /\ distances \in MatrixSet
    /\ events \in EventLists
    /\ geocode_cache = << >>
    /\ distance_cache = << >>
    /\ teams = << >>
    /\ venues = << >>
    /\ aggregates = None
    /\ output = None
    /\ trace = << >>
    /\ raceScan = << >>
    /\ rowsRead = 0
    /\ pairNo = 0

\* derive_aggregates is called once more with the distances structure the
\* first call left and the same events.
DeriveAgain ==
    /\ pc = "write_output"
    /\ \E n \in {derive_aggregates(distances, events)} :
          /\ distances' = n.distances
          /\ aggregates' = n.aggregates
    /\ pc' = "derived_again"
    /\ UNCHANGED <<geocode_cache, distance_cache, teams, venues, events, output,
                   trace, raceScan, rowsRead, pairNo>>

NextAggregates ==
    \/ DeriveAggregates
    \/ DeriveAgain

SpecAggregates == InitAggregates /\ [][NextAggregates]_vars

\* A call of derive_aggregates is taking place.
Derives == pc \in {"derive_aggregates", "write_output"} /\ pc' # pc

\* The call sends no request, touches no cache and leaves the matrix entries
\* of every team as they were.
LeavesMatrix ==
    /\ trace' = trace
    /\ geocode_cache' = geocode_cache
    /\ distance_cache' = distance_cache
    /\ DOMAIN distances' = DOMAIN distances
    /\ \A t \in DOMAIN distances : distances'[t].venues = distances[t].venues

\* The second call gives the per-team totals, the season totals and the
\* venue aggregates the first one gave.
SameAgain ==
    pc = "write_output" =>
       /\ distances' = distances
       /\ aggregates' = aggregates

\* C16: the aggregates can be recomputed: derive_aggregates issues no external
\* call, leaves every per-pair matrix entry unchanged, and applied a second
\* time to the same distances structure and events yields the same per-team
\* totals, season totals and per-venue aggregates, accumulating nothing.
C16_AggregatesRecomputable == [][Derives => LeavesMatrix /\ SameAgain]_vars

\* C16 witness: derive_aggregates has run twice over a team with travel in
\* two seasons.
C16_Witness ==
    /\ pc = "derived_again"
    /\ \E t \in DOMAIN distances :
          /\ distances[t].season_totals["Spring"].miles > 0
          /\ distances[t].season_totals["Other"].hours > 0
          /\ distances[t].total_miles_events > distances[t].season_totals["Spring"].miles
    /\ \E k \in DOMAIN aggregates.venue_total_miles :
          aggregates.venue_total_miles[k] > 0

\* Sum over the teams of a total of the team's entry.
TeamsSum(total(_)) == SumFn([t \in DOMAIN distances |-> total(distances[t])])

\* Sum over the venues of a per-venue aggregate of a season, 0 when no event
\* of the run falls in the season.
SeasonSum(by_season, s) ==
    IF s \in DOMAIN by_season THEN SumFn(by_season[s]) ELSE 0

\* C19: the two roll-ups agree: the sum over the teams of total_miles_events
\* equals the sum over the venues of venue_total_miles, likewise for each
\* season and for the hours, for any matrix and any events list, including
\* events whose venue has no entry for some team; the values being tenths of
\* a mile and hundredths of an hour, nothing is lost to rounding.
C19_RollupsAgree ==
    pc \in {"write_output", "derived_again"} =>
       /\ TeamsSum(LAMBDA td : td.total_miles_events)
             = SumFn(aggregates.venue_total_miles)
       /\ TeamsSum(LAMBDA td : td.total_hours_events)
             = SumFn(aggregates.venue_total_hours)
       /\ \A s \in Seasons :
             /\ TeamsSum(LAMBDA td : td.season_totals[s].miles)
                   = SeasonSum(aggregates.venue_total_miles_by_season, s)
             /\ TeamsSum(LAMBDA td : td.season_totals[s].hours)
                   = SeasonSum(aggregates.venue_total_hours_by_season, s)

\* C19 witness: two events at a venue that one team has an entry for and the
\* other team has none, and the roll-ups are not zero.
C19_Witness ==
    /\ pc = "write_output"
    /\ Len(events) = 2
    /\ events[1].location_key = events[2].location_key
    /\ events[1].season # events[2].season
    /\ \E t, u \in DOMAIN distances :
          /\ events[1].location_key \in DOMAIN distances[t].venues
          /\ events[1].location_key \notin DOMAIN distances[u].venues
          /\ distances[t].total_miles_events > 0
          /\ distances[u].total_miles_events = 0
    /\ SumFn(aggregates.venue_total_miles) > 0

\* --------------------------------------------- geocode_location on its own

\* geocode_location takes any query and any region hint: the State column of
\* a team row is free text and so is the City column.
MaxLookups == 3

LookupPairs ==
    { [query |-> <<"Tacoma">>, force_state |-> <<"WA">>],
      [query |-> <<"Tacoma">>, force_state |-> <<"WA", "|", "ID">>],
      [query |-> <<"Tacoma", "|", "WA">>, force_state |-> <<"ID">>],
      [query |-> <<"98101">>, force_state |-> <<"WA">>] }

\* A DistanceCalculator has been constructed; its caches are empty.
InitGeocode ==
    /\ pc = "geocode_location"
    /\ geocode_cache = << >>
    /\ distance_cache = << >>
    /\ teams = << >>
    /\ venues = << >>
    /\ events = << >>
    /\ distances = << >>
    /\ aggregates = None
    /\ output = None
    /\ trace = << >>
    /\ raceScan = << >>
    /\ rowsRead = 0
    /\ pairNo = 0

\* One call of geocode_location(query, force_state).
GeocodeCall ==
    /\ pc = "geocode_location"
    /\ Len(LookupsOf(trace)) < MaxLookups
    /\ \E p \in LookupPairs :
         \E resp \in GeocodeResponses(FullQuery(p.query, p.force_state)) :
            \E n \in {geocode_location(geocode_cache, p.query, p.force_state, resp)} :
               /\ geocode_cache' = n.cache
               /\ trace' = trace \o n.log
    /\ UNCHANGED <<pc, distance_cache, teams, venues, events, distances,
                   aggregates, output, raceScan, rowsRead, pairNo>>

NextGeocode == GeocodeCall

SpecGeocode == InitGeocode /\ [][NextGeocode]_vars

\* C18: the geocode cache key distinguishes every distinct (query,
\* region_hint) pair: two calls with different pairs never read or write the
\* same cache entry, so the first call for a pair is never answered from the
\* entry of another pair but sends its own request.
C18_KeyDistinguishesPairs ==
    \A j \in TraceIdx("return geocode_location") :
       /\ \A i \in TraceIdx("return geocode_location") :
             ~SamePair(trace[i], trace[j]) =>
                GeocodeCacheKey(trace[i].query, trace[i].force_state)
                   # GeocodeCacheKey(trace[j].query, trace[j].force_state)
       /\ (\A i \in TraceIdx("return geocode_location") :
              i < j => ~SamePair(trace[i], trace[j]))
          => \E k \in TraceIdx("GET geocode") :
                k < j /\ SamePair(trace[k], trace[j])

====
